---- MODULE Spec2Model ----
(***************************************************************************)
(* NopeDB: an LSM table (memtable + one on-disk run of slotted pages with  *)
(* a sparse index) over an LRU write-back buffer pool.                     *)
(*                                                                         *)
(* The table is instantiated as LSMTree<u8, u8>: keys serialize to one     *)
(* byte, an Option<u8> value to a tag byte followed by the value byte.     *)
(* Blocks, pages and files are modelled byte by byte.  The block size and  *)
(* the per-block memtable budget are scaled down so that a page holds two  *)
(* cells and a run of several pages is reached with a handful of keys; all *)
(* arithmetic is written against the names, not the scaled numbers.        *)
(***************************************************************************)
EXTENDS Integers, Sequences, FiniteSets, TLC

(* ---- bounds of the model ---- *)
BLOCK_SIZE == 38
MemtableBytesPerBlock == 5
MaxBlocks == 1
PoolBlocks == 2
LruBlocks == 2
MaxKey == 3
MaxVal == 1
MaxMerges == 2

(* ---- program constants ---- *)
LenWidth == 8
VarHeaderLen == 2
VarHeaderSpan == 16
VarSpaceLeft == 4094
KeyWidth == 1
ValWidth == 1
CellOverhead == 16
FixedHeaderLen == 6
FixedSpaceLeft == 4090
NumCellsLimit == 32767
PAGE_TYPE_MASK == 32768

Keys == 0..MaxKey
Vals == 1..MaxVal

(* Option<V>: None is the empty tuple, Some(x) the one-element tuple. *)
None == <<>>
Some(x) == <<x>>
OptVals == {None} \cup {Some(x) : x \in Vals}

DISK == "disktables/thing"
TMP == "disktables/thing_merge"

Min(a, b) == IF a < b THEN a ELSE b

(***************************************************************************)
(* bincode (fixed-width integers, little endian).                          *)
(***************************************************************************)
SerU16(x) == <<x % 256, x \div 256>>
DeU16(b) == b[1] + 256 * b[2]
SerKey(k) == <<k>>
SerOpt(v) == IF v = None THEN <<0>> ELSE <<1, v[1]>>

(* Strings.  The strings of the model are one character long: StrOf(x) is  *)
(* the string made of the character with code x.  bincode writes a string  *)
(* as its length (u64, also the encoding of usize) and its bytes.          *)
StrOf(x) == <<x>>
SerU64(x) == <<x % 256, (x \div 256) % 256>> \o [i \in 1..(LenWidth - 2) |-> 0]
DeU64(b) == b[1] + 256 * b[2]
SerStr(x) == SerU64(Len(StrOf(x))) \o StrOf(x)
SerOptStr(v) == IF v = None THEN <<0>> ELSE <<1>> \o SerStr(v[1])

(* bincode::deserialize::<String>: [ok, x] with StrOf(x) the string read *)
DeStr(b) ==
  IF Len(b) < LenWidth + 1 \/ DeU64(b) # 1
       \/ \E i \in 3..LenWidth : b[i] # 0
  THEN [ok |-> FALSE, x |-> 0]
  ELSE [ok |-> TRUE, x |-> b[LenWidth + 1]]

DeOptStr(b) ==
  IF Len(b) = 0 THEN [ok |-> FALSE, v |-> None]
  ELSE IF b[1] = 0 THEN [ok |-> TRUE, v |-> None]
  ELSE IF b[1] = 1 /\ DeStr(SubSeq(b, 2, Len(b))).ok
  THEN [ok |-> TRUE, v |-> Some(DeStr(SubSeq(b, 2, Len(b))).x)]
  ELSE [ok |-> FALSE, v |-> None]

(* bincode::deserialize::<Option<u8>> of a byte slice; trailing bytes are  *)
(* allowed, a short slice or an unknown tag is an Err (unwrapped: abort).  *)
DeOpt(b) ==
  IF Len(b) = 0 THEN [ok |-> FALSE, v |-> None]
  ELSE IF b[1] = 0 THEN [ok |-> TRUE, v |-> None]
  ELSE IF b[1] = 1 /\ Len(b) >= 2 THEN [ok |-> TRUE, v |-> Some(b[2])]
  ELSE [ok |-> FALSE, v |-> None]

(* &buf[a..b] with 0-based a, b: aborts unless a <= b <= len. *)
SliceOk(buf, a, b) == a >= 0 /\ a <= b /\ b <= Len(buf)
Slice(buf, a, b) == SubSeq(buf, a + 1, b)

Zeros(n) == [i \in 1..n |-> 0]

(***************************************************************************)
(* Ordered maps (BTreeMap): functions over a finite set of keys, iterated  *)
(* in ascending key order.                                                 *)
(***************************************************************************)
EmptyMap == << >>

RECURSIVE SortedSeq(_)
SortedSeq(S) ==
  IF S = {} THEN <<>>
  ELSE LET m == CHOOSE x \in S : \A y \in S : x <= y
       IN <<m>> \o SortedSeq(S \ {m})

MapInsert(f, k, v) == [x \in (DOMAIN f) \cup {k} |-> IF x = k THEN v ELSE f[x]]

(* the (key, value) pairs of a map in iteration order *)
MapIter(f) == LET ks == SortedSeq(DOMAIN f)
              IN [i \in 1..Len(ks) |-> <<ks[i], f[ks[i]]>>]

(***************************************************************************)
(* Slotted pages.                                                          *)
(***************************************************************************)
NewPage == [page_type |-> "Fixed", num_cells |-> 0, cells |-> EmptyMap,
            space_left |-> BLOCK_SIZE]

(* SlottedPage::<String, String>::new(): a negative key width selects the *)
(* Variable layout                                                         *)
NewVarPage == [NewPage EXCEPT !.page_type = "Variable"]

CellCost == CellOverhead + KeyWidth + (ValWidth + 1)

VarCellCost(k, v) == CellOverhead + Len(SerStr(k)) + Len(SerOptStr(v))

SpaceThisWillTake(p, k, v) ==
  IF p.page_type = "Fixed" THEN CellCost ELSE VarCellCost(k, v)

(* an add_cell that refuses a cell that fits exactly *)
AddCellStrict(p, k, v) ==
  IF SpaceThisWillTake(p, k, v) >= p.space_left
  THEN [ok |-> FALSE, page |-> p]
  ELSE [ok |-> TRUE,
        page |-> [p EXCEPT !.num_cells = @ + 1,
                           !.space_left = @ - SpaceThisWillTake(p, k, v),
                           !.cells = MapInsert(@, k, v)]]

(* add_cell: ok = FALSE is Err((k, v)), the page unchanged. *)
AddCell(p, k, v) ==
  IF SpaceThisWillTake(p, k, v) > p.space_left
  THEN [ok |-> FALSE, page |-> p]
  ELSE [ok |-> TRUE,
        page |-> [p EXCEPT !.num_cells = @ + 1,
                           !.space_left = @ - SpaceThisWillTake(p, k, v),
                           !.cells = MapInsert(@, k, v)]]

CellBytes(kv) == SerKey(kv[1]) \o SerOpt(kv[2])

(* offsets[i]: the running sum of the cell lengths, which is the distance  *)
(* from the end of the block to the start of cell i                        *)
RECURSIVE OffsetsFrom(_, _, _)
OffsetsFrom(kvs, i, offset) ==
  IF i > Len(kvs) THEN <<>>
  ELSE <<offset + Len(CellBytes(kvs[i]))>>
         \o OffsetsFrom(kvs, i + 1, offset + Len(CellBytes(kvs[i])))

CellOffsets(kvs) == OffsetsFrom(kvs, 1, 0)

FixedHeader(num_cells) ==
  SerU16(num_cells) \o SerU16(KeyWidth) \o SerU16(ValWidth + 1)

(* cell i covers byte q (0-based) of the block *)
InCell(q, i, kvs, offs) ==
  /\ BLOCK_SIZE - offs[i] <= q
  /\ q < BLOCK_SIZE - offs[i] + Len(CellBytes(kvs[i]))

(* byte q of the block: the header, then the offsets, then the cells are   *)
(* copied into the zeroed block, a later copy overwriting an earlier one   *)
ByteAt(q, num_cells, kvs, offs) ==
  IF \E i \in 1..Len(kvs) : InCell(q, i, kvs, offs)
  THEN LET i == CHOOSE j \in 1..Len(kvs) :
                  /\ InCell(q, j, kvs, offs)
                  /\ \A l \in 1..Len(kvs) : InCell(q, l, kvs, offs) => l <= j
       IN CellBytes(kvs[i])[q - (BLOCK_SIZE - offs[i]) + 1]
  ELSE IF FixedHeaderLen <= q /\ q < FixedHeaderLen + 2 * Len(kvs)
  THEN SerU16(offs[((q - FixedHeaderLen) \div 2) + 1])[((q - FixedHeaderLen) % 2) + 1]
  ELSE IF q < FixedHeaderLen THEN FixedHeader(num_cells)[q + 1]
  ELSE 0

EncodeFits(num_cells, kvs, offs) ==
  /\ num_cells <= NumCellsLimit
  /\ FixedHeaderLen + 2 * Len(kvs) <= BLOCK_SIZE
  /\ \A i \in 1..Len(kvs) : offs[i] <= BLOCK_SIZE

EncodeCells(num_cells, kvs, offs) ==
  [i \in 1..BLOCK_SIZE |-> ByteAt(i - 1, num_cells, kvs, offs)]

EncodeWith(num_cells, kvs, offs) ==
  [ok |-> EncodeFits(num_cells, kvs, offs),
   bytes |-> EncodeCells(num_cells, kvs, offs)]

EncodeIter(num_cells, kvs) == EncodeWith(num_cells, kvs, CellOffsets(kvs))

(* The Variable layout.  A cell is the key's length, the key, the key's    *)
(* length again (where the value's length is meant) and the value.         *)
VarCellBytes(kv) ==
  SerU64(Len(SerStr(kv[1]))) \o SerStr(kv[1])
    \o SerU64(Len(SerStr(kv[1]))) \o SerOptStr(kv[2])

(* offsets[i]: the sum of the lengths of the cells before cell i *)
RECURSIVE VarOffsetsFrom(_, _, _)
VarOffsetsFrom(kvs, i, offset) ==
  IF i > Len(kvs) THEN <<>>
  ELSE <<offset>> \o VarOffsetsFrom(kvs, i + 1, offset + Len(VarCellBytes(kvs[i])))

VarHeader(num_cells) == SerU16(PAGE_TYPE_MASK + num_cells)

InVarCell(q, i, kvs, offs) ==
  /\ BLOCK_SIZE - offs[i] <= q
  /\ q < BLOCK_SIZE - offs[i] + Len(VarCellBytes(kvs[i]))

VarByteAt(q, num_cells, kvs, offs) ==
  IF \E i \in 1..Len(kvs) : InVarCell(q, i, kvs, offs)
  THEN LET i == CHOOSE j \in 1..Len(kvs) :
                  /\ InVarCell(q, j, kvs, offs)
                  /\ \A l \in 1..Len(kvs) : InVarCell(q, l, kvs, offs) => l <= j
       IN VarCellBytes(kvs[i])[q - (BLOCK_SIZE - offs[i]) + 1]
  ELSE IF VarHeaderLen <= q /\ q < VarHeaderLen + 2 * Len(kvs)
  THEN SerU16(offs[((q - VarHeaderLen) \div 2) + 1])[((q - VarHeaderLen) % 2) + 1]
  ELSE IF q < VarHeaderSpan THEN VarHeader(num_cells)[q + 1]
  ELSE 0

(* the copies of the Variable branch are in range and of equal lengths:    *)
(* the header into final_arr[0..16], the offsets, the cells                *)
EncodeVarFits(num_cells, kvs, offs) ==
  /\ num_cells <= NumCellsLimit
  /\ VarHeaderSpan <= BLOCK_SIZE
  /\ Len(VarHeader(num_cells)) = VarHeaderSpan
  /\ VarHeaderLen + 2 * Len(kvs) <= BLOCK_SIZE
  /\ \A i \in 1..Len(kvs) :
        /\ offs[i] <= BLOCK_SIZE
        /\ BLOCK_SIZE - offs[i] + Len(VarCellBytes(kvs[i])) <= BLOCK_SIZE

EncodeVarWith(num_cells, kvs, offs) ==
  IF EncodeVarFits(num_cells, kvs, offs)
  THEN [ok |-> TRUE,
        bytes |-> [i \in 1..BLOCK_SIZE |-> VarByteAt(i - 1, num_cells, kvs, offs)]]
  ELSE [ok |-> FALSE, bytes |-> <<>>]

EncodeVariable(num_cells, kvs) ==
  EncodeVarWith(num_cells, kvs, VarOffsetsFrom(kvs, 1, 0))

(* encode: ok = FALSE when it panics (too many cells, a copy out of range) *)
Encode(p) ==
  IF p.page_type = "Fixed" THEN EncodeIter(p.num_cells, MapIter(p.cells))
  ELSE EncodeVariable(p.num_cells, MapIter(p.cells))

BadCell == [ok |-> FALSE, k |-> 0, v |-> None]

CellOf(k, val) == [ok |-> val.ok, k |-> k, v |-> val.v]

(* the cell whose offset-table entry is `offset` *)
CellAt(buf, key_size, val_size, offset) ==
  IF \/ offset > BLOCK_SIZE
     \/ ~SliceOk(buf, BLOCK_SIZE - offset, BLOCK_SIZE - offset + key_size)
     \/ key_size < KeyWidth
     \/ ~SliceOk(buf, BLOCK_SIZE - offset + key_size,
                 BLOCK_SIZE - offset + key_size + val_size)
  THEN BadCell
  ELSE CellOf(buf[BLOCK_SIZE - offset + 1],
              DeOpt(Slice(buf, BLOCK_SIZE - offset + key_size,
                          BLOCK_SIZE - offset + key_size + val_size)))

(* one round of decode's loop, for cell i (0-based) *)
DecodeCell(buf, key_size, val_size, i) ==
  IF ~SliceOk(buf, FixedHeaderLen + i * 2, FixedHeaderLen + i * 2 + 2)
  THEN BadCell
  ELSE CellAt(buf, key_size, val_size,
              DeU16(Slice(buf, FixedHeaderLen + i * 2, FixedHeaderLen + i * 2 + 2)))

(* the loop runs n times, n being the header's cell count as read before   *)
(* the loop; each round inserts the cell and increments num_cells again    *)
RECURSIVE DecodeLoop(_, _, _, _, _, _)
DecodeNext(buf, key_size, val_size, i, n, s, c) ==
  IF ~c.ok THEN [ok |-> FALSE, page |-> s]
  ELSE DecodeLoop(buf, key_size, val_size, i + 1, n,
         [s EXCEPT !.cells = MapInsert(@, c.k, c.v),
                   !.num_cells = @ + 1,
                   !.space_left = @ - 2 - key_size - val_size])

DecodeLoop(buf, key_size, val_size, i, n, s) ==
  IF i >= n THEN [ok |-> TRUE, page |-> s]
  ELSE DecodeNext(buf, key_size, val_size, i, n, s,
                  DecodeCell(buf, key_size, val_size, i))

DecodeFixed(buf, num_cells) ==
  IF ~SliceOk(buf, 2, FixedHeaderLen) THEN [ok |-> FALSE, page |-> NewPage]
  ELSE DecodeLoop(buf, DeU16(Slice(buf, 2, 4)), DeU16(Slice(buf, 4, 6)), 0,
                  num_cells,
                  [page_type |-> "Fixed", num_cells |-> num_cells,
                   cells |-> EmptyMap, space_left |-> FixedSpaceLeft])

(* the Variable branch of decode: the cell whose offset-table entry is     *)
(* `offset`; used is what the cell takes from space_left                   *)
BadVarCell == [ok |-> FALSE, k |-> 0, v |-> None, used |-> 0]

VarValAt(buf, k, val_start, key_size, val_size) ==
  IF ~SliceOk(buf, val_start, val_start + val_size) THEN BadVarCell
  ELSE [ok |-> DeOptStr(Slice(buf, val_start, val_start + val_size)).ok,
        k |-> k,
        v |-> DeOptStr(Slice(buf, val_start, val_start + val_size)).v,
        used |-> 2 + key_size + val_size]

VarKeyAt(buf, key_start, key_size) ==
  IF \/ ~SliceOk(buf, key_start, key_start + key_size)
     \/ ~DeStr(Slice(buf, key_start, key_start + key_size)).ok
     \/ ~SliceOk(buf, key_start + key_size, key_start + key_size + 2)
  THEN BadVarCell
  ELSE VarValAt(buf, DeStr(Slice(buf, key_start, key_start + key_size)).x,
                key_start + key_size + 2, key_size,
                DeU16(Slice(buf, key_start + key_size, key_start + key_size + 2)))

VarCellAt(buf, offset) ==
  IF \/ offset > BLOCK_SIZE
     \/ ~SliceOk(buf, BLOCK_SIZE - offset, offset + 2)
     \/ (offset + 2) - (BLOCK_SIZE - offset) < 2
  THEN BadVarCell
  ELSE VarKeyAt(buf, offset + 2, DeU16(Slice(buf, BLOCK_SIZE - offset, offset + 2)))

DecodeVarCell(buf, i) ==
  IF ~SliceOk(buf, VarHeaderLen + i * 2, VarHeaderLen + i * 2 + 2)
  THEN BadVarCell
  ELSE VarCellAt(buf, DeU16(Slice(buf, VarHeaderLen + i * 2,
                                  VarHeaderLen + i * 2 + 2)))

RECURSIVE DecodeVarLoop(_, _, _, _)
DecodeVarNext(buf, i, n, s, c) ==
  IF ~c.ok THEN [ok |-> FALSE, page |-> s]
  ELSE DecodeVarLoop(buf, i + 1, n,
         [s EXCEPT !.cells = MapInsert(@, c.k, c.v),
                   !.num_cells = @ + 1,
                   !.space_left = @ - c.used])

DecodeVarLoop(buf, i, n, s) ==
  IF i >= n THEN [ok |-> TRUE, page |-> s]
  ELSE DecodeVarNext(buf, i, n, s, DecodeVarCell(buf, i))

DecodeVariable(buf, num_cells) ==
  DecodeVarLoop(buf, 0, num_cells,
                [page_type |-> "Variable", num_cells |-> num_cells,
                 cells |-> EmptyMap, space_left |-> VarSpaceLeft])

(* decode: ok = FALSE when a slice is out of range or an unwrap fails; the *)
(* flag bit of the header selects the layout.                              *)
Decode(buf) ==
  IF ~SliceOk(buf, 0, 2) THEN [ok |-> FALSE, page |-> NewPage]
  ELSE IF DeU16(Slice(buf, 0, 2)) >= PAGE_TYPE_MASK
  THEN DecodeVariable(buf, DeU16(Slice(buf, 0, 2)) % PAGE_TYPE_MASK)
  ELSE DecodeFixed(buf, DeU16(Slice(buf, 0, 2)) % PAGE_TYPE_MASK)

(***************************************************************************)
(* Buffer pool over a file system.  A world w is                           *)
(*   blocks : the pool's deque, most recently used first; a block is       *)
(*            [file, off, bytes, dirty]                                    *)
(*   files  : the existing files, path |-> bytes                           *)
(*   abort  : "none", or the place where the program panicked; every       *)
(*            operation leaves an aborted world as it is.                  *)
(***************************************************************************)
Block(file, off, bytes, dirty) ==
  [file |-> file, off |-> off, bytes |-> bytes, dirty |-> dirty]

Abort(w, why) == [w EXCEPT !.abort = why]

AlignDown(offset) == offset - (offset % BLOCK_SIZE)

(* first index of the resident block (file, off), 0 when not resident *)
Position(blocks, file, off) ==
  IF \E i \in 1..Len(blocks) : blocks[i].file = file /\ blocks[i].off = off
  THEN CHOOSE i \in 1..Len(blocks) :
         /\ blocks[i].file = file /\ blocks[i].off = off
         /\ \A j \in 1..(i - 1) : ~(blocks[j].file = file /\ blocks[j].off = off)
  ELSE 0

(* a hit that leaves the block where it is *)
KeepOrder(blocks, i) == blocks

RemoveAt(s, i) == SubSeq(s, 1, i - 1) \o SubSeq(s, i + 1, Len(s))

(* renew: move the block at index i to the front *)
Renew(blocks, i) == <<blocks[i]>> \o RemoveAt(blocks, i)

(* write_at: positional write, the file growing (zero filled) as needed *)
WriteAt(content, off, bytes) ==
  [i \in 1..(IF off + Len(bytes) > Len(content) THEN off + Len(bytes)
             ELSE Len(content)) |->
     IF off < i /\ i <= off + Len(bytes) THEN bytes[i - off]
     ELSE IF i <= Len(content) THEN content[i] ELSE 0]

(* the write-back of one dirty block: open without create, write_at *)
WriteBack(w, b) ==
  IF b.file \notin DOMAIN w.files THEN Abort(w, "open")
  ELSE [w EXCEPT !.files[b.file] = WriteAt(@, AlignDown(b.off), b.bytes)]

PushFront(w, b) ==
  IF w.abort # "none" THEN w ELSE [w EXCEPT !.blocks = <<b>> \o @]

(* an eviction that forgets the write-back of a dirty block *)
DropVictim(w) ==
  IF w.blocks = <<>> THEN Abort(w, "pop_back")
  ELSE [w EXCEPT !.blocks = SubSeq(@, 1, Len(@) - 1)]

(* pop_back().unwrap(), and the write-back of the block if it is dirty *)
Evict(w) ==
  IF w.blocks = <<>> THEN Abort(w, "pop_back")
  ELSE IF w.blocks[Len(w.blocks)].dirty
  THEN WriteBack([w EXCEPT !.blocks = SubSeq(@, 1, Len(@) - 1)],
                 w.blocks[Len(w.blocks)])
  ELSE [w EXCEPT !.blocks = SubSeq(@, 1, Len(@) - 1)]

(* add: evict the least recently used block of a full pool, then push b *)
MgrAdd(w, n, b) ==
  IF w.abort # "none" THEN w
  ELSE IF Len(w.blocks) = n THEN PushFront(Evict(w), b)
  ELSE PushFront(w, b)

(* OpenOptions ... create(true).open(file): the file exists afterwards *)
OpenCreate(w, file) ==
  IF file \in DOMAIN w.files THEN w
  ELSE [w EXCEPT !.files = [f \in (DOMAIN w.files) \cup {file} |->
                              IF f = file THEN <<>> ELSE w.files[f]]]

ReadIn(w, n, file, block_offset, buf) ==
  [w |-> MgrAdd(w, n, Block(file, block_offset, buf, FALSE)), res |-> Some(buf)]

(* a miss that takes a block ending at the end of the file for absent *)
MissAtEnd(w, n, file, block_offset) ==
  IF block_offset + BLOCK_SIZE >= Len(w.files[file])
  THEN [w |-> w, res |-> None]
  ELSE ReadIn(w, n, file, block_offset,
              SubSeq(w.files[file], block_offset + 1, block_offset + BLOCK_SIZE))

(* the miss branch of get, the file being open *)
Miss(w, n, file, block_offset) ==
  IF block_offset + BLOCK_SIZE > Len(w.files[file])
  THEN [w |-> w, res |-> None]
  ELSE ReadIn(w, n, file, block_offset,
              SubSeq(w.files[file], block_offset + 1, block_offset + BLOCK_SIZE))

(* the hit branch of get: renew, and hand out the front block *)
Hit(w, x) ==
  [w |-> [w EXCEPT !.blocks = Renew(@, x)], res |-> Some(w.blocks[x].bytes)]

GetAt(w, n, file, block_offset, x) ==
  IF x # 0 THEN Hit(w, x)
  ELSE Miss(OpenCreate(w, file), n, file, block_offset)

(* get: res is None or Some(bytes of the block) *)
MgrGet(w, n, file, offset) ==
  IF w.abort # "none" THEN [w |-> w, res |-> None]
  ELSE GetAt(w, n, file, AlignDown(offset),
             Position(w.blocks, file, AlignDown(offset)))

Retag(bs, from, to) ==
  [i \in 1..Len(bs) |->
     IF bs[i].file = from THEN [bs[i] EXCEPT !.file = to] ELSE bs[i]]

(* a rename that marks the blocks it keeps as clean *)
RenameClearsDirty(w, from, to) ==
  IF w.abort # "none" THEN w
  ELSE [w EXCEPT !.blocks =
          [i \in 1..Len(Retag(SelectSeq(@, LAMBDA b : b.file # to), from, to)) |->
             [Retag(SelectSeq(@, LAMBDA b : b.file # to), from, to)[i]
                EXCEPT !.dirty = FALSE]]]

RenameNoPurge(w, from, to) ==
  IF w.abort # "none" THEN w
  ELSE [w EXCEPT !.blocks = Retag(@, from, to)]

(* rename: drop the resident blocks of `to`, re-tag those of `from` *)
MgrRename(w, from, to) ==
  IF w.abort # "none" THEN w
  ELSE [w EXCEPT !.blocks =
          Retag(SelectSeq(@, LAMBDA b : b.file # to), from, to)]

(* the Some(x) branch of write: copy buf into the resident block *)
Overwrite(w, x, in_block_offset, buf, buf_size) ==
  IF \/ in_block_offset + buf_size > Len(w.blocks[x].bytes)
     \/ Len(buf) # buf_size
  THEN Abort(w, "copy_from_slice")
  ELSE [w EXCEPT !.blocks[x] =
          [@ EXCEPT !.dirty = TRUE,
                    !.bytes = [i \in 1..Len(@) |->
                       IF in_block_offset < i /\ i <= in_block_offset + buf_size
                       THEN buf[i - in_block_offset] ELSE @[i]]]]

WriteBlock(w, n, file, offset, buf, buf_size, x) ==
  IF x # 0 THEN Overwrite(w, x, offset % BLOCK_SIZE, buf, buf_size)
  ELSE MgrAdd(w, n, Block(file, AlignDown(offset), buf, TRUE))

(* write, after its call of get *)
WriteInto(w, n, file, offset, buf, buf_size) ==
  IF w.abort # "none" THEN w
  ELSE WriteBlock(w, n, file, offset, buf, buf_size,
                  Position(w.blocks, file, AlignDown(offset)))

(* write: make the block resident, then overwrite it or insert a new one *)
MgrWrite(w, n, file, offset, buf, buf_size) ==
  IF w.abort # "none" THEN w
  ELSE WriteInto(MgrGet(w, n, file, AlignDown(offset)).w, n, file, offset,
                 buf, buf_size)

(* flush: write back every dirty block, front to back, and clear the flags *)
RECURSIVE FlushFrom(_, _)
FlushNext(w, i) ==
  IF w.abort # "none" THEN w
  ELSE FlushFrom([w EXCEPT !.blocks[i].dirty = FALSE], i + 1)

FlushFrom(w, i) ==
  IF w.abort # "none" \/ i > Len(w.blocks) THEN w
  ELSE IF w.blocks[i].dirty THEN FlushNext(WriteBack(w, w.blocks[i]), i)
  ELSE FlushNext(w, i)

(* a flush that handles the front block only *)
FlushFront(w) ==
  IF w.abort # "none" \/ w.blocks = <<>> THEN w
  ELSE IF w.blocks[1].dirty THEN FlushNext(WriteBack(w, w.blocks[1]), 1)
  ELSE w

MgrFlush(w) == FlushFrom(w, 1)

(***************************************************************************)
(* LSM table.  A table t is [memtable, memtable_size, disktable_index,     *)
(* merge_count]; every operation takes and returns the world it runs in.   *)
(***************************************************************************)
NewTable == [memtable |-> EmptyMap, memtable_size |-> 0,
             disktable_index |-> EmptyMap, merge_count |-> 0]

PageOf(w, d) ==
  IF d.ok THEN [w |-> w, res |-> Some(d.page)]
  ELSE [w |-> Abort(w, "decode"), res |-> None]

DecodeBlock(g) ==
  IF g.w.abort # "none" \/ g.res = None THEN [w |-> g.w, res |-> None]
  ELSE PageOf(g.w, Decode(g.res[1]))

(* get_page: a block of the file through the pool, decoded *)
GetPage(w, n, file, offset) == DecodeBlock(MgrGet(w, n, file, offset))

(* what get_next_disk returns for the cells `iter` of the page at offset *)
Cursor(w, iter, offset) ==
  IF iter = <<>> THEN [w |-> w, res |-> None]
  ELSE [w |-> w,
        res |-> Some([x |-> Head(iter), iter |-> Tail(iter), offset |-> offset])]

FirstCell(g, offset) ==
  IF g.res = None THEN [w |-> g.w, res |-> None]
  ELSE Cursor(g.w, MapIter(g.res[1].cells), offset)

(* the first cell of the page at `offset` *)
FirstOfPage(w, n, offset) == FirstCell(GetPage(w, n, DISK, offset), offset)

(* get_next_disk: the next cell of the run; iter_option is None or         *)
(* Some(the cells left of the current page); the page at 0 is read first,  *)
(* the page at offset + BLOCK_SIZE when the current one is used up.        *)
GetNextDisk(w, n, iter_option, offset) ==
  IF w.abort # "none" THEN [w |-> w, res |-> None]
  ELSE IF iter_option # None /\ iter_option[1] # <<>>
  THEN Cursor(w, iter_option[1], offset)
  ELSE FirstOfPage(w, n, IF iter_option = None THEN 0 ELSE offset + BLOCK_SIZE)

WriteEncoded(w, n, e, offset) ==
  IF ~e.ok THEN Abort(w, "encode")
  ELSE MgrWrite(w, n, TMP, offset, e.bytes, BLOCK_SIZE)

(* encode the page and write it at `offset` of the temporary file *)
WritePage(w, n, page, offset) ==
  IF w.abort # "none" THEN w ELSE WriteEncoded(w, n, Encode(page), offset)

(* the while loop of write_btreemap_to_disk over the cells kvs[i..];       *)
(* pages collects the pages written                                        *)
RECURSIVE WriteLoop(_, _, _, _, _, _, _)
Spill(w, n, kvs, i, curr_s, offset, pages, again) ==
  IF w.abort # "none"
  THEN [w |-> w, curr_s |-> curr_s, offset |-> offset, pages |-> pages]
  ELSE IF ~again.ok
  THEN [w |-> Abort(w, "add_cell"), curr_s |-> curr_s, offset |-> offset,
        pages |-> pages]
  ELSE WriteLoop(w, n, kvs, i + 1, again.page, offset + BLOCK_SIZE,
                 Append(pages, curr_s))

Added(w, n, kvs, i, curr_s, offset, pages, res) ==
  IF res.ok THEN WriteLoop(w, n, kvs, i + 1, res.page, offset, pages)
  ELSE Spill(WritePage(w, n, curr_s, offset), n, kvs, i, curr_s, offset,
             pages, AddCell(NewPage, kvs[i][1], kvs[i][2]))

WriteLoop(w, n, kvs, i, curr_s, offset, pages) ==
  IF w.abort # "none" \/ i > Len(kvs)
  THEN [w |-> w, curr_s |-> curr_s, offset |-> offset, pages |-> pages]
  ELSE Added(w, n, kvs, i, curr_s, offset, pages,
             AddCell(curr_s, kvs[i][1], kvs[i][2]))

(* remove_file(disktable); rename(tmp, disktable); manager.rename *)
SwapFiles(w) ==
  IF w.abort # "none" THEN w
  ELSE IF DISK \notin DOMAIN w.files THEN Abort(w, "remove_file")
  ELSE IF TMP \notin DOMAIN w.files
  THEN Abort([w EXCEPT !.files = [f \in (DOMAIN @) \ {DISK} |-> @[f]]],
             "fs_rename")
  ELSE MgrRename(
         [w EXCEPT !.files = [f \in ((DOMAIN @) \ {TMP}) \cup {DISK} |->
                                IF f = DISK THEN @[TMP] ELSE @[f]]],
         TMP, DISK)

(* the end of write_btreemap_to_disk: the last, partly filled page *)
WriteRest(n, l) ==
  IF l.curr_s.num_cells > 0
  THEN [w |-> SwapFiles(WritePage(l.w, n, l.curr_s, l.offset)),
        pages |-> Append(l.pages, l.curr_s)]
  ELSE [w |-> SwapFiles(l.w), pages |-> l.pages]

(* write_btreemap_to_disk: pages is the sequence of pages it encoded *)
WriteBtreemapToDisk(w, n, kvs) ==
  WriteRest(n, WriteLoop(w, n, kvs, 1, NewPage, 0, <<>>))

(* loop { insert curr_disk; advance the run }, until the run is exhausted *)
RECURSIVE DrainDisk(_, _, _)
DrainNext(n, g, merged) ==
  IF g.res = None THEN [w |-> g.w, merged |-> merged]
  ELSE DrainDisk(n, g, merged)

DrainDisk(n, g, merged) ==
  DrainNext(n, GetNextDisk(g.w, n, Some(g.res[1].iter), g.res[1].offset),
            MapInsert(merged, g.res[1].x[1], g.res[1].x[2]))

(* loop { insert curr_mem; advance the memtable }, until it is exhausted *)
RECURSIVE DrainMem(_, _, _)
DrainMem(curr_mem, mem_iter, merged) ==
  IF mem_iter = <<>> THEN MapInsert(merged, curr_mem[1], curr_mem[2])
  ELSE DrainMem(Head(mem_iter), Tail(mem_iter),
                MapInsert(merged, curr_mem[1], curr_mem[2]))

PreferDisk(curr_mem, curr_disk, merged) ==
  IF curr_mem[1] < curr_disk[1]
  THEN [merged |-> MapInsert(merged, curr_mem[1], curr_mem[2]),
        fetch_mem |-> TRUE, fetch_disk |-> FALSE]
  ELSE [merged |-> MapInsert(merged, curr_disk[1], curr_disk[2]),
        fetch_mem |-> curr_mem[1] = curr_disk[1], fetch_disk |-> TRUE]

(* the comparison that ends a round of merge's loop: which entry is        *)
(* emitted, and which cursors advance in the next round                    *)
MergeStep(curr_mem, curr_disk, merged) ==
  IF curr_mem[1] = curr_disk[1]
  THEN [merged |-> MapInsert(merged, curr_mem[1], curr_mem[2]),
        fetch_mem |-> TRUE, fetch_disk |-> TRUE]
  ELSE IF curr_mem[1] < curr_disk[1]
  THEN [merged |-> MapInsert(merged, curr_mem[1], curr_mem[2]),
        fetch_mem |-> TRUE, fetch_disk |-> FALSE]
  ELSE [merged |-> MapInsert(merged, curr_disk[1], curr_disk[2]),
        fetch_mem |-> FALSE, fetch_disk |-> TRUE]

(* the run's cursor for this round: advanced if fetch_disk is set *)
AdvanceDisk(n, s) ==
  IF s.fetch_disk THEN GetNextDisk(s.w, n, Some(s.disk_iter), s.curr_offset)
  ELSE [w |-> s.w,
        res |-> Some([x |-> s.curr_disk, iter |-> s.disk_iter,
                      offset |-> s.curr_offset])]

(* the loop of merge; s holds the loop's variables, s.merged the map built *)
RECURSIVE MergeLoop(_, _)
Compared(n, g, curr_mem, mem_iter, c) ==
  MergeLoop(n, [w |-> g.w, mem_iter |-> mem_iter, disk_iter |-> g.res[1].iter,
                curr_mem |-> curr_mem, curr_disk |-> g.res[1].x,
                curr_offset |-> g.res[1].offset,
                fetch_mem |-> c.fetch_mem, fetch_disk |-> c.fetch_disk,
                merged |-> c.merged])

(* the memtable has a current entry; g is the run's cursor *)
Round(n, s, g, curr_mem, mem_iter) ==
  IF g.res = None
  THEN [s EXCEPT !.w = g.w, !.merged = DrainMem(curr_mem, mem_iter, @)]
  ELSE Compared(n, g, curr_mem, mem_iter,
                MergeStep(curr_mem, g.res[1].x, s.merged))

Drained(s, d) == [s EXCEPT !.w = d.w, !.merged = d.merged]

(* an exhausted memtable that ends the merge without draining the run *)
SkipRest(n, s, g) == [s EXCEPT !.w = g.w]

(* the memtable is exhausted; g is the run's cursor *)
MemExhausted(n, s, g) ==
  IF g.res = None THEN [s EXCEPT !.w = g.w]
  ELSE Drained(s, DrainDisk(n, g, s.merged))

MergeLoop(n, s) ==
  IF s.w.abort # "none" THEN s
  ELSE IF s.fetch_mem /\ s.mem_iter = <<>>
  THEN MemExhausted(n, s, AdvanceDisk(n, s))
  ELSE IF s.fetch_mem
  THEN Round(n, s, AdvanceDisk(n, s), Head(s.mem_iter), Tail(s.mem_iter))
  ELSE Round(n, s, AdvanceDisk(n, s), s.curr_mem, s.mem_iter)

Written(t, wr) == [t |-> t, w |-> wr.w, pages |-> wr.pages]

MergedRun(t, n, s) ==
  IF s.w.abort # "none" THEN [t |-> t, w |-> s.w, pages |-> <<>>]
  ELSE Written(t, WriteBtreemapToDisk(s.w, n, MapIter(s.merged)))

(* merge, after its first get_next_disk *)
MergeFrom(t, n, memtable_iter, first) ==
  IF first.w.abort # "none" THEN [t |-> t, w |-> first.w, pages |-> <<>>]
  ELSE IF first.res = None
  THEN Written(t, WriteBtreemapToDisk(first.w, n, memtable_iter))
  ELSE IF memtable_iter = <<>>
  THEN [t |-> t, w |-> Abort(first.w, "memtable_next"), pages |-> <<>>]
  ELSE MergedRun(t, n,
         MergeLoop(n, [w |-> first.w, mem_iter |-> Tail(memtable_iter),
                       disk_iter |-> first.res[1].iter,
                       curr_mem |-> Head(memtable_iter),
                       curr_disk |-> first.res[1].x,
                       curr_offset |-> first.res[1].offset,
                       fetch_mem |-> FALSE, fetch_disk |-> FALSE,
                       merged |-> EmptyMap]))

(* merge: pages is the run it wrote (meaningful when it returned) *)
Merge(t, w, n) ==
  MergeFrom([t EXCEPT !.merge_count = @ + 1, !.memtable = EmptyMap,
                      !.memtable_size = 0],
            n, MapIter(t.memtable), GetNextDisk(w, n, None, 0))

(* build_index: walk the run from offset 0, one index entry per page; the  *)
(* entries already in disktable_index stay.                                *)
RECURSIVE BuildIndexFrom(_, _, _, _)
IndexPage(t, n, offset, g) ==
  IF g.res = None \/ DOMAIN g.res[1].cells = {} THEN [t |-> t, w |-> g.w]
  ELSE BuildIndexFrom(
         [t EXCEPT !.disktable_index =
            MapInsert(@, MapIter(g.res[1].cells)[1][1], offset)],
         g.w, n, offset + BLOCK_SIZE)

BuildIndexFrom(t, w, n, offset) ==
  IndexPage(t, n, offset, GetPage(w, n, DISK, offset))

BuildIndex(t, w, n) == BuildIndexFrom(t, w, n, 0)

Indexed(m, b) ==
  [t |-> b.t, w |-> b.w, merged |-> TRUE, pages |-> m.pages, merge_w |-> m.w]

(* put, memtable_size after the update: the size of an old value of the    *)
(* key is taken off, the sizes of the key and of the value are added       *)
PutSize(t, k, v) ==
  t.memtable_size
    - (IF k \in DOMAIN t.memtable THEN Len(SerOpt(t.memtable[k])) ELSE 0)
    + Len(SerKey(k)) + Len(SerOpt(v))

(* put, after merge: build_index *)
PutMerged(m, n) ==
  IF m.w.abort # "none"
  THEN [t |-> m.t, w |-> m.w, merged |-> TRUE, pages |-> m.pages,
        merge_w |-> m.w]
  ELSE Indexed(m, BuildIndex(m.t, m.w, n))

(* a put that merges as soon as the budget is reached *)
PutCheckAtBudget(t, w, n) ==
  IF t.memtable_size >= n * MemtableBytesPerBlock
  THEN PutMerged(Merge(t, w, n), n)
  ELSE [t |-> t, w |-> w, merged |-> FALSE, pages |-> <<>>, merge_w |-> w]

(* put, the memtable updated: merge and build_index over the budget *)
PutCheck(t, w, n) ==
  IF t.memtable_size > n * MemtableBytesPerBlock
  THEN PutMerged(Merge(t, w, n), n)
  ELSE [t |-> t, w |-> w, merged |-> FALSE, pages |-> <<>>, merge_w |-> w]

(* put: merged tells whether the memtable budget was exceeded; pages and   *)
(* merge_w are then the run merge wrote and the world merge returned in.   *)
PutOp(t, w, n, k, v) ==
  PutCheck([t EXCEPT !.memtable = MapInsert(@, k, v),
                     !.memtable_size = PutSize(t, k, v)],
           w, n)

(* the entry of the sparse index with the greatest key <= k, if any *)
IndexFloor(index, k) ==
  IF \E x \in DOMAIN index : x <= k
  THEN Some(index[CHOOSE x \in DOMAIN index :
                    x <= k /\ \A y \in DOMAIN index : y <= k => y <= x])
  ELSE None

CellValue(w, d, k) ==
  IF ~d.ok THEN [w |-> Abort(w, "decode"), res |-> None]
  ELSE IF k \in DOMAIN d.page.cells THEN [w |-> w, res |-> d.page.cells[k]]
  ELSE [w |-> w, res |-> None]

LookUp(g, k) ==
  IF g.w.abort # "none" \/ g.res = None THEN [w |-> g.w, res |-> None]
  ELSE CellValue(g.w, Decode(g.res[1]), k)

GetAtFloor(w, n, k, prev) ==
  IF prev = None THEN [w |-> Abort(w, "index_prev"), res |-> None]
  ELSE LookUp(MgrGet(w, n, DISK, prev[1]), k)

(* the look-up of get in the run, for a key the memtable does not hold *)
GetFromRun(t, w, n, k) == GetAtFloor(w, n, k, IndexFloor(t.disktable_index, k))

GetSkipsTombstone(t, w, n, k) ==
  IF k \in DOMAIN t.memtable /\ t.memtable[k] # None
  THEN [w |-> w, res |-> t.memtable[k]]
  ELSE GetFromRun(t, w, n, k)

(* get: the memtable first, then the run *)
GetOp(t, w, n, k) ==
  IF k \in DOMAIN t.memtable THEN [w |-> w, res |-> t.memtable[k]]
  ELSE GetFromRun(t, w, n, k)

(***************************************************************************)
(* The state machine: one table over one pool, used by a single thread.    *)
(***************************************************************************)
VARIABLES
  num_blocks,       \* BufferManager.num_blocks
  blocks,           \* BufferManager.blocks, most recently used first
  files,            \* the file system: path |-> bytes
  abort,            \* "none", or where the program panicked
  memtable,         \* LSMTree.memtable
  memtable_size,    \* LSMTree.memtable_size
  disktable_index,  \* LSMTree.disktable_index
  merge_count,      \* LSMTree.merge_count
  run,              \* history: the pages of the run as the last merge encoded them
  hist,             \* history: key |-> the value of the last put of that key
  last,             \* history: the operation that led to this state
  pc,               \* position in the scripted scenario (0 outside of it)
  script,           \* the key and the two values of the scripted scenario
  recent,           \* history: the blocks a get returned, most recent first
  written,          \* history: block |-> the last write made to it
  spage             \* a SlottedPage under construction

vars == <<num_blocks, blocks, files, abort, memtable, memtable_size,
          disktable_index, merge_count, run, hist, last, pc, script,
          recent, written, spage>>

tableVars == <<memtable, memtable_size, disktable_index, merge_count, run, hist>>

sideVars == <<recent, written, spage>>

World == [blocks |-> blocks, files |-> files, abort |-> abort]
Table == [memtable |-> memtable, memtable_size |-> memtable_size,
          disktable_index |-> disktable_index, merge_count |-> merge_count]

SetWorld(w) == blocks' = w.blocks /\ files' = w.files /\ abort' = w.abort
SetTable(t) == /\ memtable' = t.memtable
               /\ memtable_size' = t.memtable_size
               /\ disktable_index' = t.disktable_index
               /\ merge_count' = t.merge_count

NoOp == [op |-> "new", k |-> 0, res |-> None, size |-> 0, merged |-> FALSE,
         merge_ret |-> FALSE, pre_mem |-> EmptyMap, pre_run |-> <<>>]

NoScript == [k |-> 0, a |-> None, b |-> None]

(* BufferManager::new(n), then LSMTree::new: build_index on a run that     *)
(* does not exist yet (the pool's get creates the empty file).             *)
Fresh(n) ==
  /\ num_blocks = n
  /\ \E b \in {BuildIndex(NewTable,
                          [blocks |-> <<>>, files |-> EmptyMap, abort |-> "none"],
                          n)} :
        /\ blocks = b.w.blocks /\ files = b.w.files /\ abort = b.w.abort
        /\ memtable = b.t.memtable
        /\ memtable_size = b.t.memtable_size
        /\ disktable_index = b.t.disktable_index
        /\ merge_count = b.t.merge_count
  /\ run = <<>>
  /\ hist = EmptyMap
  /\ last = NoOp
  /\ recent = <<>> /\ written = EmptyMap /\ spage = NewPage

Init ==
  /\ \E n \in 1..MaxBlocks : Fresh(n)
  /\ pc = 0
  /\ script = NoScript

PutCore(k, v) ==
  /\ abort = "none"
  /\ merge_count < MaxMerges
  /\ \E r \in {PutOp(Table, World, num_blocks, k, v)} :
        /\ SetTable(r.t)
        /\ SetWorld(r.w)
        /\ run' = IF r.merged /\ r.merge_w.abort = "none" THEN r.pages ELSE run
        /\ last' = [NoOp EXCEPT
                      !.op = "put",
                      !.size = PutSize(Table, k, v),
                      !.merged = r.merged,
                      !.merge_ret = r.merged /\ r.merge_w.abort = "none",
                      !.pre_mem = IF r.merged THEN MapInsert(memtable, k, v)
                                  ELSE EmptyMap,
                      !.pre_run = IF r.merged THEN run ELSE <<>>]
  /\ hist' = MapInsert(hist, k, v)
  /\ UNCHANGED <<num_blocks, sideVars>>

GetCore(k) ==
  /\ abort = "none"
  /\ \E r \in {GetOp(Table, World, num_blocks, k)} :
        /\ SetWorld(r.w)
        /\ last' = [NoOp EXCEPT !.op = "get", !.k = k, !.res = r.res]
  /\ UNCHANGED <<num_blocks, tableVars, sideVars>>

MergeCore ==
  /\ abort = "none"
  /\ merge_count < MaxMerges
  /\ \E r \in {Merge(Table, World, num_blocks)} :
        /\ SetTable(r.t)
        /\ SetWorld(r.w)
        /\ run' = IF r.w.abort = "none" THEN r.pages ELSE run
        /\ last' = [NoOp EXCEPT !.op = "merge", !.merged = TRUE,
                                !.merge_ret = (r.w.abort = "none"),
                                !.pre_mem = memtable, !.pre_run = run]
  /\ UNCHANGED <<num_blocks, hist, sideVars>>

FlushCore ==
  /\ abort = "none"
  /\ \E i \in 1..Len(blocks) : blocks[i].dirty
  /\ \E w \in {MgrFlush(World)} : SetWorld(w)
  /\ last' = [NoOp EXCEPT !.op = "flush"]
  /\ UNCHANGED <<num_blocks, tableVars, sideVars>>

Put == \E k \in Keys, v \in OptVals : PutCore(k, v) /\ UNCHANGED <<pc, script>>
Get == \E k \in Keys : GetCore(k) /\ UNCHANGED <<pc, script>>
MergeNow == MergeCore /\ UNCHANGED <<pc, script>>
Flush == FlushCore /\ UNCHANGED <<pc, script>>

(* the public surface: put, get, merge on the table, flush on the pool *)
Next == Put \/ Get \/ MergeNow \/ Flush
Spec == Init /\ [][Next]_vars

(* merges happen only inside put, each followed by build_index *)
NextAuto == Put \/ Get
SpecAuto == Init /\ [][NextAuto]_vars

(***************************************************************************)
(* The scripted scenario on a fresh table:                                 *)
(*   put(k, Some(a)); merge(); put(k, b); get(k); merge(); get(k)          *)
(* with b being Some(value) or None.  pc counts the calls made.            *)
(***************************************************************************)
ScriptVals == 1..(MaxVal + 1)

InitScript ==
  /\ \E n \in 1..MaxBlocks : Fresh(n)
  /\ pc = 0
  /\ script \in [k : Keys, a : {Some(x) : x \in ScriptVals},
                 b : {None} \cup {Some(x) : x \in ScriptVals}]

ScriptPutA == pc = 0 /\ PutCore(script.k, script.a) /\ pc' = 1 /\ UNCHANGED script
ScriptMerge1 == pc = 1 /\ MergeCore /\ pc' = 2 /\ UNCHANGED script
ScriptPutB == pc = 2 /\ PutCore(script.k, script.b) /\ pc' = 3 /\ UNCHANGED script
ScriptGet1 == pc = 3 /\ GetCore(script.k) /\ pc' = 4 /\ UNCHANGED script
ScriptMerge2 == pc = 4 /\ MergeCore /\ pc' = 5 /\ UNCHANGED script
ScriptGet2 == pc = 5 /\ GetCore(script.k) /\ pc' = 6 /\ UNCHANGED script

NextScript == \/ ScriptPutA \/ ScriptMerge1 \/ ScriptPutB
              \/ ScriptGet1 \/ ScriptMerge2 \/ ScriptGet2
SpecScript == InitScript /\ [][NextScript]_vars

(***************************************************************************)
(* The buffer pool on its own: get, write, rename and flush in any order   *)
(* over two files.                                                         *)
(***************************************************************************)
PoolFiles == {DISK, TMP}
PoolOffsets == {0, BLOCK_SIZE + 3}
PoolLens == {BLOCK_SIZE}

(* the call made, with the pool and the file system as they were before it *)
PoolOp(name, file, off, res) ==
  [op |-> name, file |-> file, off |-> off, res |-> res, purged |-> 0,
   pre_blocks |-> blocks, pre_files |-> files]

NoTable ==
  /\ memtable = EmptyMap /\ memtable_size = 0
  /\ disktable_index = EmptyMap /\ merge_count = 0
  /\ run = <<>> /\ hist = EmptyMap
  /\ pc = 0 /\ script = NoScript
  /\ spage = NewPage

InitPool ==
  /\ num_blocks \in 1..PoolBlocks
  /\ blocks = <<>> /\ files = EmptyMap /\ abort = "none"
  /\ NoTable
  /\ recent = <<>> /\ written = EmptyMap
  /\ last = PoolOp("new", DISK, 0, None)

GetCall(file, off) ==
  /\ abort = "none"
  /\ \E r \in {MgrGet(World, num_blocks, file, off)} :
        /\ SetWorld(r.w)
        /\ last' = PoolOp("get", file, off, r.res)

WriteCall(file, off, buf) ==
  /\ abort = "none"
  /\ \E w \in {MgrWrite(World, num_blocks, file, off, buf, Len(buf))} :
        /\ SetWorld(w)
        /\ last' = PoolOp("write", file, off, buf)

FlushCall ==
  /\ abort = "none"
  /\ \E w \in {MgrFlush(World)} :
        /\ SetWorld(w)
        /\ last' = PoolOp("flush", DISK, 0, None)

PoolGet ==
  /\ \E file \in PoolFiles, off \in PoolOffsets : GetCall(file, off)
  /\ UNCHANGED <<num_blocks, tableVars, pc, script, sideVars>>

PoolWrite ==
  /\ \E file \in PoolFiles, off \in PoolOffsets, len \in PoolLens, x \in Vals :
       WriteCall(file, off, [i \in 1..len |-> x])
  /\ UNCHANGED <<num_blocks, tableVars, pc, script, sideVars>>

PoolRename ==
  /\ abort = "none"
  /\ \E from \in PoolFiles, to \in PoolFiles :
       \E w \in {MgrRename(World, from, to)} :
          /\ SetWorld(w)
          /\ last' = [PoolOp("rename", from, 0, Some(to)) EXCEPT
                         !.purged = Cardinality({i \in 1..Len(blocks) :
                                                   blocks[i].file = to})]
  /\ UNCHANGED <<num_blocks, tableVars, pc, script, sideVars>>

PoolFlush ==
  /\ FlushCall
  /\ UNCHANGED <<num_blocks, tableVars, pc, script, sideVars>>

NextPool == PoolGet \/ PoolWrite \/ PoolRename \/ PoolFlush
SpecPool == InitPool /\ [][NextPool]_vars

(* the same calls on a pool of any capacity, BufferManager::new(0) included *)
InitPoolAny ==
  /\ num_blocks \in 0..PoolBlocks
  /\ blocks = <<>> /\ files = EmptyMap /\ abort = "none"
  /\ NoTable
  /\ recent = <<>> /\ written = EmptyMap
  /\ last = PoolOp("new", DISK, 0, None)

SpecPoolAny == InitPoolAny /\ [][NextPool]_vars

(***************************************************************************)
(* Gets alone, over two files of LruBlocks blocks each; recent lists the   *)
(* blocks the gets returned, most recently returned first.                 *)
(***************************************************************************)
LruOffsets == {i * BLOCK_SIZE + 3 : i \in 0..LruBlocks}

Ident(file, off) == <<file, AlignDown(off)>>

Touch(ids, id) == <<id>> \o SelectSeq(ids, LAMBDA x : x # id)

InitLru ==
  /\ num_blocks \in 1..PoolBlocks
  /\ blocks = <<>> /\ abort = "none"
  /\ files = [f \in PoolFiles |->
                [i \in 1..(LruBlocks * BLOCK_SIZE) |-> ((i - 1) \div BLOCK_SIZE) + 1]]
  /\ NoTable
  /\ recent = <<>> /\ written = EmptyMap
  /\ last = PoolOp("new", DISK, 0, None)

LruGet ==
  /\ \E file \in PoolFiles, off \in LruOffsets :
       /\ GetCall(file, off)
       /\ recent' = IF last'.res = None THEN recent
                    ELSE Touch(recent, Ident(file, off))
  /\ UNCHANGED <<num_blocks, tableVars, pc, script, written, spage>>

NextLru == LruGet
SpecLru == InitLru /\ [][NextLru]_vars

(***************************************************************************)
(* Gets, writes and flushes without rename, the writes being short or a    *)
(* whole block, aligned or not; written records the last write that        *)
(* returned, per block.                                                    *)
(***************************************************************************)
WriteOffsets == {0, 3}
WriteLens == {2, BLOCK_SIZE}

InitWrite == InitPool

WGet ==
  /\ \E file \in PoolFiles, off \in WriteOffsets : GetCall(file, off)
  /\ UNCHANGED <<num_blocks, tableVars, pc, script, sideVars>>

WWrite ==
  /\ \E file \in PoolFiles, off \in WriteOffsets, len \in WriteLens, x \in Vals :
       /\ WriteCall(file, off, [i \in 1..len |-> x])
       /\ written' = IF abort' # "none" THEN written
                     ELSE MapInsert(written, Ident(file, off),
                                    [at |-> off % BLOCK_SIZE,
                                     buf |-> [i \in 1..len |-> x]])
  /\ UNCHANGED <<num_blocks, tableVars, pc, script, recent, spage>>

WFlush ==
  /\ FlushCall
  /\ UNCHANGED <<num_blocks, tableVars, pc, script, sideVars>>

NextWrite == WGet \/ WWrite \/ WFlush
SpecWrite == InitWrite /\ [][NextWrite]_vars

(***************************************************************************)
(* A page on its own: SlottedPage::new() for a fixed-width or a string     *)
(* table, then add_cell calls.                                             *)
(***************************************************************************)
PageOp(name, k, v, ok) ==
  [op |-> name, k |-> k, v |-> v, ok |-> ok, pre_page |-> spage]

InitPage ==
  /\ num_blocks = 1
  /\ blocks = <<>> /\ files = EmptyMap /\ abort = "none"
  /\ memtable = EmptyMap /\ memtable_size = 0
  /\ disktable_index = EmptyMap /\ merge_count = 0
  /\ run = <<>> /\ hist = EmptyMap
  /\ pc = 0 /\ script = NoScript
  /\ recent = <<>> /\ written = EmptyMap
  /\ spage \in {NewPage, NewVarPage}
  /\ last = PageOp("new", 0, None, TRUE)

AddCellCall(k, v) ==
  /\ \E r \in {AddCell(spage, k, v)} :
        /\ spage' = r.page
        /\ last' = PageOp("add_cell", k, v, r.ok)
  /\ UNCHANGED <<num_blocks, blocks, files, abort, tableVars, pc, script,
                 recent, written>>

AddFixed ==
  /\ spage.page_type = "Fixed"
  /\ \E k \in Keys, v \in OptVals : AddCellCall(k, v)

AddVariable ==
  /\ spage.page_type = "Variable"
  /\ \E k \in Keys, v \in OptVals : AddCellCall(k, v)

NextPage == AddFixed \/ AddVariable
SpecPage == InitPage /\ [][NextPage]_vars

(***************************************************************************)
(* Views of the state used by the properties.                              *)
(***************************************************************************)
RunKeys(pages) == UNION {DOMAIN pages[i].cells : i \in 1..Len(pages)}

PagesHolding(pages, k) == {i \in 1..Len(pages) : k \in DOMAIN pages[i].cells}

RunValue(pages, k) ==
  pages[CHOOSE i \in PagesHolding(pages, k) : TRUE].cells[k]

(* the run read block by block through the pool, from offset 0 until the   *)
(* pool's get returns None                                                 *)
RECURSIVE ReadFrom(_, _, _, _)
ReadMore(g, n, offset, acc) ==
  IF g.w.abort # "none" \/ g.res = None THEN acc
  ELSE ReadFrom(g.w, n, offset + BLOCK_SIZE, Append(acc, g.res[1]))

ReadFrom(w, n, offset, acc) == ReadMore(MgrGet(w, n, DISK, offset), n, offset, acc)

RunBlocks == ReadFrom(World, num_blocks, 0, <<>>)

(* the keys of a block in offset-table order, read as decode reads them *)
KeyAt(buf, i) ==
  buf[BLOCK_SIZE - DeU16(Slice(buf, FixedHeaderLen + i * 2,
                               FixedHeaderLen + i * 2 + 2)) + 1]

BlockKeys(buf) ==
  [i \in 1..(DeU16(Slice(buf, 0, 2)) % PAGE_TYPE_MASK) |-> KeyAt(buf, i - 1)]

RECURSIVE KeysOf(_, _)
KeysOf(bs, i) ==
  IF i > Len(bs) THEN <<>> ELSE BlockKeys(bs[i]) \o KeysOf(bs, i + 1)

StrictlyIncreasing(s) == \A i \in 1..(Len(s) - 1) : s[i] < s[i + 1]

EncodedRun == [i \in 1..Len(run) |-> Encode(run[i]).bytes]

MinKey(page) ==
  CHOOSE k \in DOMAIN page.cells : \A j \in DOMAIN page.cells : k <= j

(* one entry per page of the run: the page's smallest key -> its offset *)
ExactIndex(pages) ==
  [k \in {MinKey(pages[i]) : i \in 1..Len(pages)} |->
     ((CHOOSE i \in 1..Len(pages) : MinKey(pages[i]) = k) - 1) * BLOCK_SIZE]

BuildIndexDone ==
  /\ abort = "none"
  /\ last.op = "new" \/ (last.op = "put" /\ last.merged)

(***************************************************************************)
(* Properties.                                                             *)
(***************************************************************************)

(* C1: with merges triggered only by put, a get of a key that was put      *)
(* returns the value of the last put of that key, without aborting.        *)
C1_GetReturnsLastPut ==
  (last.op = "get" /\ last.k \in DOMAIN hist)
     => (abort = "none" /\ last.res = hist[last.k])

(* C2: a get of a key the memtable holds returns the memtable's entry for  *)
(* that key, tombstone included, whatever the run holds; before the first  *)
(* merge that is the value of the last put.                                *)
C2_MemtableHit ==
  (last.op = "get" /\ last.k \in DOMAIN memtable)
     => /\ abort = "none"
        /\ last.res = memtable[last.k]
        /\ merge_count = 0 => last.res = hist[last.k]

C2_Witness ==
  /\ last.op = "get" /\ abort = "none"
  /\ last.k \in DOMAIN memtable /\ memtable[last.k] = None
  /\ last.k \in RunKeys(run) /\ RunValue(run, last.k) # None
  /\ last.res = None

(* C3: a get of a key that is not in the memtable and has no index entry   *)
(* at or below it returns None without aborting.                           *)
C3_NoFloorReturnsNone ==
  (/\ last.op = "get"
   /\ last.k \notin DOMAIN memtable
   /\ IndexFloor(disktable_index, last.k) = None)
     => (abort = "none" /\ last.res = None)

(* C4: in the scripted scenario put(k,a); merge; put(k,b); get(k); merge;  *)
(* get(k), both gets return b (None when b is a tombstone) and neither     *)
(* aborts.                                                                 *)
C4_ScriptedGets ==
  /\ pc = 4 => (abort = "none" /\ last.res = script.b)
  /\ pc = 6 => (abort = "none" /\ last.res = script.b)

(* C5: in the run a merge wrote, a key held by both the memtable and the   *)
(* old run appears once, with the memtable's value (a tombstone included), *)
(* and the blocks read through the pool are the encodings of those pages.  *)
C5_MemtableDominates ==
  last.merge_ret =>
    /\ \A k \in DOMAIN last.pre_mem \cap RunKeys(last.pre_run) :
          /\ Cardinality(PagesHolding(run, k)) = 1
          /\ RunValue(run, k) = last.pre_mem[k]
    /\ abort = "none" => RunBlocks = EncodedRun

C5_Witness ==
  /\ last.merge_ret /\ abort = "none"
  /\ \E k \in DOMAIN last.pre_mem \cap RunKeys(last.pre_run) :
        /\ last.pre_mem[k] = None
        /\ RunValue(last.pre_run, k) # None
        /\ RunValue(run, k) = None

(* C6: when merge returns, the memtable is empty and its size is 0, the    *)
(* run's keys are the union of the memtable's and the old run's keys, and  *)
(* a key only the old run held keeps its value.                            *)
C6_MergeResult ==
  last.merge_ret =>
    /\ memtable = EmptyMap
    /\ memtable_size = 0
    /\ RunKeys(run) = DOMAIN last.pre_mem \cup RunKeys(last.pre_run)
    /\ \A k \in RunKeys(last.pre_run) \ DOMAIN last.pre_mem :
          RunValue(run, k) = RunValue(last.pre_run, k)
    /\ \A k \in DOMAIN last.pre_mem \ RunKeys(last.pre_run) :
          RunValue(run, k) = last.pre_mem[k]

C6_Witness ==
  /\ last.merge_ret /\ abort = "none"
  /\ RunKeys(last.pre_run) \ DOMAIN last.pre_mem # {}
  /\ DOMAIN last.pre_mem \ RunKeys(last.pre_run) # {}
  /\ \E k \in RunKeys(last.pre_run) \ DOMAIN last.pre_mem :
        \A m \in DOMAIN last.pre_mem : m < k

(* C7: after a merge, the run read page by page through the pool has as    *)
(* many blocks as merge wrote pages, the keys of its cells are strictly    *)
(* increasing within and across pages and are the run's keys, and a block  *)
(* that decodes yields the cells of its page; also when the run has more   *)
(* pages than the pool has blocks.                                         *)
C7_RunSorted ==
  abort = "none" =>
    /\ Len(RunBlocks) = Len(run)
    /\ StrictlyIncreasing(KeysOf(RunBlocks, 1))
    /\ {KeysOf(RunBlocks, 1)[i] : i \in 1..Len(KeysOf(RunBlocks, 1))} = RunKeys(run)
    /\ \A i \in 1..Len(RunBlocks) :
          /\ i <= Len(run) => Len(BlockKeys(RunBlocks[i])) = Cardinality(DOMAIN run[i].cells)
          /\ Decode(RunBlocks[i]).ok /\ i <= Len(run)
               => Decode(RunBlocks[i]).page.cells = run[i].cells

C7_Witness ==
  /\ last.merge_ret /\ abort = "none"
  /\ Len(run) > num_blocks
  /\ Len(RunBlocks) = Len(run)
  /\ Len(last.pre_run) > 0

(* C8: when build_index has run, the index has exactly one entry per page  *)
(* of the run, mapping the page's smallest key to the page's offset.       *)
C8_IndexExact == BuildIndexDone => disktable_index = ExactIndex(run)

(* C9: the run is a whole number of blocks, and every block of it decodes  *)
(* without aborting into the page that was encoded.                        *)
C9_BlocksDecode ==
  abort = "none" =>
    /\ DISK \in DOMAIN files => Len(files[DISK]) % BLOCK_SIZE = 0
    /\ Len(RunBlocks) = Len(run)
    /\ \A i \in 1..Len(RunBlocks) :
          /\ Len(RunBlocks[i]) = BLOCK_SIZE
          /\ Decode(RunBlocks[i]).ok
          /\ i <= Len(run) => Decode(RunBlocks[i]).page.cells = run[i].cells

(* C10: no two resident blocks of the pool have the same file and aligned  *)
(* offset, after any sequence of get, write, rename and flush.             *)
C10_UniqueResidency ==
  \A i, j \in 1..Len(blocks) :
     (blocks[i].file = blocks[j].file
      /\ AlignDown(blocks[i].off) = AlignDown(blocks[j].off)) => i = j

C10_Witness ==
  /\ last.op = "rename" /\ abort = "none"
  /\ last.purged >= 1
  /\ last.file # last.res[1]
  /\ Len(blocks) >= 1
  /\ \A i \in 1..Len(blocks) : blocks[i].file = last.res[1]

(* C11: after any sequence of gets that returned K distinct blocks on a    *)
(* pool of N blocks, the resident blocks are the min(N, K) most recently   *)
(* returned ones, most recent first; a hit moves the block to the front    *)
(* and keeps the others, a miss on a full pool drops the block at the back.*)
ResidentIds(bs) == [i \in 1..Len(bs) |-> <<bs[i].file, bs[i].off>>]

C11_Lru ==
  /\ abort = "none"
  /\ ResidentIds(blocks) = SubSeq(recent, 1, Min(num_blocks, Len(recent)))
  /\ (last.op = "get" /\ last.res # None) =>
        /\ ResidentIds(blocks)[1] = Ident(last.file, last.off)
        /\ Tail(ResidentIds(blocks))
             = SelectSeq(SubSeq(ResidentIds(last.pre_blocks), 1,
                                IF Position(last.pre_blocks, last.file,
                                            AlignDown(last.off)) = 0
                                THEN Min(Len(last.pre_blocks), num_blocks - 1)
                                ELSE Len(last.pre_blocks)),
                         LAMBDA x : x # Ident(last.file, last.off))

C11_Witness ==
  /\ last.op = "get" /\ last.res # None
  /\ num_blocks >= 2 /\ Len(recent) > num_blocks
  /\ Position(last.pre_blocks, last.file, AlignDown(last.off)) = num_blocks
  /\ ResidentIds(blocks)[1] = Ident(last.file, last.off)

(* the block the call made room for by eviction, if it evicted one *)
Evicted ==
  /\ last.op \in {"get", "write"}
  /\ Position(last.pre_blocks, last.file, AlignDown(last.off)) = 0
  /\ Len(last.pre_blocks) = num_blocks
  /\ Position(blocks, last.file, AlignDown(last.off)) = 1

Victim == last.pre_blocks[Len(last.pre_blocks)]

(* the bytes of a file from 0-based position a, n of them *)
FileBytes(fs, file, a, n) ==
  IF file \in DOMAIN fs /\ a + n <= Len(fs[file])
  THEN SubSeq(fs[file], a + 1, a + n) ELSE <<>>

(* C12: without rename, a dirty block that is evicted is in its file at    *)
(* its aligned offset when it has left the pool, and a get of a block      *)
(* returns the bytes of the last write made to that block.                 *)
C12_NoLostWrite ==
  /\ (abort = "none" /\ Evicted /\ Victim.dirty) =>
        FileBytes(files, Victim.file, Victim.off, Len(Victim.bytes)) = Victim.bytes
  /\ (last.op = "get" /\ Ident(last.file, last.off) \in DOMAIN written) =>
        /\ abort = "none"
        /\ last.res # None
        /\ LET wr == written[Ident(last.file, last.off)]
           IN  /\ wr.at + Len(wr.buf) <= Len(last.res[1])
               /\ SubSeq(last.res[1], wr.at + 1, wr.at + Len(wr.buf)) = wr.buf

(* the aligned short write that an eviction loses *)
C12_LostAligned ==
  /\ last.op = "get" /\ abort = "none" /\ last.res = None
  /\ Ident(last.file, last.off) \in DOMAIN written
  /\ written[Ident(last.file, last.off)].at = 0

(* the blocks a rename keeps: those whose file is not `to` *)
Kept == SelectSeq(last.pre_blocks, LAMBDA b : b.file # last.res[1])

(* the content of a file, none if it does not exist *)
Content(fs, file) == IF file \in DOMAIN fs THEN Some(fs[file]) ELSE None

(* C13: rename(from, to) drops the resident blocks of `to` without writing *)
(* them, re-tags the blocks of `from` as `to` keeping offset, bytes, dirty *)
(* flag and relative order, and leaves the other blocks unchanged; no      *)
(* resident block has file `from` afterwards, and a flush or an eviction   *)
(* that follows does not write to `from`.                                  *)
C13_Rename ==
  last.op = "rename" =>
    /\ abort = "none"
    /\ files = last.pre_files
    /\ Len(blocks) = Len(Kept)
    /\ \A i \in 1..Len(blocks) :
          /\ blocks[i].off = Kept[i].off
          /\ blocks[i].bytes = Kept[i].bytes
          /\ blocks[i].dirty = Kept[i].dirty
          /\ blocks[i].file = IF Kept[i].file = last.file THEN last.res[1]
                              ELSE Kept[i].file
          /\ blocks[i].file # last.file
          /\ Content(WriteBack(World, blocks[i]).files, last.file)
               = Content(files, last.file)
    /\ Content(MgrFlush(World).files, last.file) = Content(files, last.file)

C13_Witness ==
  /\ last.op = "rename" /\ abort = "none"
  /\ last.file # last.res[1]
  /\ \E i \in 1..Len(last.pre_blocks) :
        last.pre_blocks[i].file = last.res[1] /\ last.pre_blocks[i].dirty
  /\ \E i \in 1..Len(last.pre_blocks) :
        last.pre_blocks[i].file = last.file /\ last.pre_blocks[i].dirty
  /\ \E i \in 1..Len(blocks) : blocks[i].file = last.res[1] /\ blocks[i].dirty
  /\ last.file \in DOMAIN files

(* position q (1-based) of file f lies in the range a dirty block of bs    *)
(* is written to                                                           *)
CoveredByDirty(bs, f, q) ==
  \E i \in 1..Len(bs) :
     /\ bs[i].dirty /\ bs[i].file = f
     /\ AlignDown(bs[i].off) < q /\ q <= AlignDown(bs[i].off) + Len(bs[i].bytes)

(* C14: a flush that returns has written every resident dirty block to    *)
(* its file at its aligned offset and leaves no block dirty; the resident  *)
(* blocks, their order and their bytes are unchanged, and nothing else is  *)
(* written: a clean block causes no disk write.                            *)
C14_Flush ==
  (last.op = "flush" /\ abort = "none") =>
    /\ Len(blocks) = Len(last.pre_blocks)
    /\ \A i \in 1..Len(blocks) :
          /\ blocks[i] = [last.pre_blocks[i] EXCEPT !.dirty = FALSE]
          /\ last.pre_blocks[i].dirty =>
               FileBytes(files, blocks[i].file, AlignDown(blocks[i].off),
                         Len(blocks[i].bytes)) = blocks[i].bytes
    /\ DOMAIN files = DOMAIN last.pre_files
    /\ \A f \in DOMAIN files :
          /\ Len(files[f]) >= Len(last.pre_files[f])
          /\ \A q \in 1..Len(files[f]) :
                ~CoveredByDirty(last.pre_blocks, f, q) =>
                   files[f][q] = IF q <= Len(last.pre_files[f])
                                 THEN last.pre_files[f][q] ELSE 0
          /\ (\A q \in 1..Len(files[f]) : ~CoveredByDirty(last.pre_blocks, f, q))
                => files[f] = last.pre_files[f]

C14_Witness ==
  /\ last.op = "flush" /\ abort = "none"
  /\ Len(last.pre_blocks) >= 2
  /\ \E i \in 1..Len(last.pre_blocks) : ~last.pre_blocks[i].dirty
  /\ last.pre_blocks[Len(last.pre_blocks)].dirty
  /\ files # last.pre_files

FileLen(fs, file) == IF file \in DOMAIN fs THEN Len(fs[file]) ELSE 0

(* C15: a get of a block that is not resident returns None exactly when    *)
(* the aligned offset plus BLOCK_SIZE exceeds the length of the file, and  *)
(* then the resident blocks, their order and dirty flags are unchanged; a  *)
(* get of a resident block never returns None.                             *)
C15_GetNone ==
  (last.op = "get" /\ abort = "none") =>
    IF Position(last.pre_blocks, last.file, AlignDown(last.off)) = 0
    THEN /\ (last.res = None) <=>
               (AlignDown(last.off) + BLOCK_SIZE > FileLen(last.pre_files, last.file))
         /\ last.res = None => blocks = last.pre_blocks
         /\ last.res # None =>
               last.res[1] = FileBytes(last.pre_files, last.file,
                                       AlignDown(last.off), BLOCK_SIZE)
    ELSE last.res # None

C15_Witness ==
  /\ last.op = "get" /\ abort = "none" /\ last.res = None
  /\ FileLen(last.pre_files, last.file) >= BLOCK_SIZE
  /\ Len(blocks) >= 1
  /\ \E i \in 1..Len(blocks) : blocks[i].dirty

(* the block (file, aligned offset) as the pool showed it before the call: *)
(* the resident block, else the block on disk, else zeros                  *)
Before(bs, fs, file, off) ==
  IF Position(bs, file, off) # 0 THEN bs[Position(bs, file, off)].bytes
  ELSE IF off + BLOCK_SIZE <= FileLen(fs, file)
  THEN FileBytes(fs, file, off, BLOCK_SIZE)
  ELSE Zeros(BLOCK_SIZE)

Patched(old, at, buf) ==
  [q \in 1..BLOCK_SIZE |->
     IF at < q /\ q <= at + Len(buf) THEN buf[q - at] ELSE old[q]]

(* C16: after write(file, offset, buf, len), whatever the offset and       *)
(* wherever the block was, the block (file, aligned offset) is resident    *)
(* and dirty, its bytes [offset mod BLOCK_SIZE, offset mod BLOCK_SIZE +    *)
(* len) are buf and its other bytes are what they were, zero for a new     *)
(* block.                                                                  *)
C16_Write ==
  (last.op = "write" /\ (last.off % BLOCK_SIZE) + Len(last.res) <= BLOCK_SIZE) =>
    /\ abort = "none"
    /\ Position(blocks, last.file, AlignDown(last.off)) # 0
    /\ blocks[Position(blocks, last.file, AlignDown(last.off))].dirty
    /\ Len(Before(last.pre_blocks, last.pre_files, last.file,
                  AlignDown(last.off))) = BLOCK_SIZE
    /\ blocks[Position(blocks, last.file, AlignDown(last.off))].bytes
         = Patched(Before(last.pre_blocks, last.pre_files, last.file,
                          AlignDown(last.off)),
                   last.off % BLOCK_SIZE, last.res)

(* the unaligned short write to a block that is nowhere *)
C16_Misplaced ==
  /\ last.op = "write" /\ abort = "none"
  /\ last.pre_blocks = <<>> /\ last.pre_files = EmptyMap
  /\ last.off % BLOCK_SIZE # 0
  /\ Len(last.res) < BLOCK_SIZE
  /\ blocks[1].bytes = last.res

WriteFits == (last.off % BLOCK_SIZE) + Len(last.res) <= BLOCK_SIZE

WasResident == Position(last.pre_blocks, last.file, AlignDown(last.off)) # 0

(* position q (1-based) of file f is in the range the evicted dirty block  *)
(* was written to                                                          *)
InWriteBack(f, q) ==
  /\ Evicted /\ Victim.dirty /\ Victim.file = f
  /\ AlignDown(Victim.off) < q /\ q <= AlignDown(Victim.off) + Len(Victim.bytes)

(* C17: a write does not write its block to disk: the only bytes of a file *)
(* a write changes are those of a dirty block it evicts; a second write to *)
(* a block still resident returns, changes no file, and leaves the block   *)
(* holding its bytes, so that the one disk write of the block (here by     *)
(* flush) carries the bytes of the second write.                           *)
C17_WriteBack ==
  (last.op = "write" /\ WriteFits) =>
    /\ abort = "none"
    /\ \A f \in DOMAIN files :
          \A q \in 1..Len(files[f]) :
             ~InWriteBack(f, q) =>
                files[f][q] = IF q <= FileLen(last.pre_files, f)
                              THEN last.pre_files[f][q] ELSE 0
    /\ WasResident =>
          /\ files = last.pre_files
          /\ MgrFlush(World).abort = "none" =>
                FileBytes(MgrFlush(World).files, last.file, last.off, Len(last.res))
                  = last.res

(* the second write to a resident block that aborts *)
C17_SecondWriteAborts ==
  /\ last.op = "write" /\ WriteFits /\ WasResident
  /\ abort = "copy_from_slice"
  /\ last.pre_blocks[Position(last.pre_blocks, last.file, AlignDown(last.off))].dirty
  /\ last.off % BLOCK_SIZE # 0 /\ Len(last.res) < BLOCK_SIZE

(* the page got its cells by add_cell calls with distinct keys *)
DistinctAdds == spage.num_cells = Cardinality(DOMAIN spage.cells)

(* C18: for a fixed-width table, a page built from SlottedPage::new() by   *)
(* add_cell calls with distinct keys encodes, and the encoding decodes to  *)
(* a page with the same cells, the same num_cells and the same page_type.  *)
C18_RoundTrip ==
  (spage.page_type = "Fixed" /\ DistinctAdds) =>
    /\ Encode(spage).ok
    /\ Decode(Encode(spage).bytes).ok
    /\ Decode(Encode(spage).bytes).page.cells = spage.cells
    /\ Decode(Encode(spage).bytes).page.num_cells = spage.num_cells
    /\ Decode(Encode(spage).bytes).page.page_type = spage.page_type

(* the page of one cell that decodes with its cells and a doubled count *)
C18_Doubled ==
  /\ spage.page_type = "Fixed" /\ DistinctAdds
  /\ spage.num_cells = 1
  /\ Decode(Encode(spage).bytes).ok
  /\ Decode(Encode(spage).bytes).page.cells = spage.cells
  /\ Decode(Encode(spage).bytes).page.num_cells = 2

(* add_cell has just returned the pair it did not accept *)
Rejected == last.op = "add_cell" /\ ~last.ok

(* C19: a page of a String table filled by add_cell until add_cell returns *)
(* the unaccepted pair can be encoded, the encoding can be decoded, and    *)
(* the decoded cells are the cells of the page before encoding.            *)
C19_FilledVariable ==
  (spage.page_type = "Variable" /\ Rejected) =>
    /\ Encode(spage).ok
    /\ Decode(Encode(spage).bytes).ok
    /\ Decode(Encode(spage).bytes).page.cells = spage.cells

(* a filled page of a String table whose encode aborts: the 2-byte header  *)
(* is copied into a 16-byte span                                           *)
C19_EncodeAborts ==
  /\ spage.page_type = "Variable" /\ Rejected
  /\ spage.num_cells >= 1
  /\ Len(VarHeader(spage.num_cells)) # VarHeaderSpan
  /\ ~Encode(spage).ok

(* C20: add_cell(k, v) on a page whose space_left is smaller than the      *)
(* cell's cost (16 + key width + value width on a Fixed page) returns the  *)
(* pair and leaves num_cells, space_left and cells unchanged; when the     *)
(* cell fits, space_left decreases by exactly the cost and the cell is in  *)
(* the map.                                                                *)
C20_AddCell ==
  last.op = "add_cell" =>
    /\ (last.pre_page.page_type = "Fixed" =>
          SpaceThisWillTake(last.pre_page, last.k, last.v)
            = CellOverhead + KeyWidth + (ValWidth + 1))
    /\ IF last.pre_page.space_left
            < SpaceThisWillTake(last.pre_page, last.k, last.v)
       THEN /\ ~last.ok
            /\ spage.num_cells = last.pre_page.num_cells
            /\ spage.space_left = last.pre_page.space_left
            /\ spage.cells = last.pre_page.cells
       ELSE /\ last.ok
            /\ spage.space_left = last.pre_page.space_left
                 - SpaceThisWillTake(last.pre_page, last.k, last.v)
            /\ last.k \in DOMAIN spage.cells
            /\ spage.cells = MapInsert(last.pre_page.cells, last.k, last.v)
            /\ spage.num_cells = last.pre_page.num_cells + 1

(* a full Fixed page has refused a cell, after having accepted cells *)
C20_Witness ==
  /\ Rejected
  /\ spage.page_type = "Fixed"
  /\ spage.num_cells >= 2
  /\ spage.space_left < CellCost
  /\ spage = last.pre_page

(* put's budget *)
Budget == num_blocks * MemtableBytesPerBlock

(* C21: put runs merge, then build_index, exactly when memtable_size after *)
(* the update exceeds the budget of num_blocks blocks; otherwise the run,  *)
(* the index, merge_count and the pool are as before; a put that returns   *)
(* leaves memtable_size within the budget.                                 *)
PutEffect ==
  /\ merge_count' = merge_count + (IF last'.size > Budget THEN 1 ELSE 0)
  /\ last'.merged <=> (last'.size > Budget)
  /\ IF last'.size > Budget
     THEN abort' = "none" =>
            /\ memtable' = EmptyMap /\ memtable_size' = 0
            /\ last'.merge_ret
            /\ \A i \in 1..Len(run') :
                  \E x \in DOMAIN disktable_index' :
                     disktable_index'[x] = (i - 1) * BLOCK_SIZE
     ELSE /\ abort' = "none"
          /\ memtable_size' = last'.size
          /\ run' = run /\ disktable_index' = disktable_index
          /\ blocks' = blocks /\ files' = files
  /\ abort' = "none" => memtable_size' <= Budget

C21_PutMerges == [][last'.op = "put" => PutEffect]_vars

(* a put that went over the budget has merged, rebuilt the index, returned *)
C21_Witness ==
  /\ last.op = "put" /\ last.merged /\ last.merge_ret
  /\ last.size > Budget
  /\ abort = "none"
  /\ memtable_size = 0 /\ merge_count >= 1
  /\ Len(run) >= 1 /\ disktable_index # EmptyMap

(* the serialized bytes of the entries of a map: keys plus values *)
RECURSIVE BytesOf(_, _)
BytesOf(kvs, i) ==
  IF i > Len(kvs) THEN 0
  ELSE Len(SerKey(kvs[i][1])) + Len(SerOpt(kvs[i][2])) + BytesOf(kvs, i + 1)

MemtableBytes == BytesOf(MapIter(memtable), 1)

(* C22: in every state memtable_size is the sum, over the entries of the   *)
(* memtable, of the serialized key bytes plus the serialized value bytes   *)
(* (so that overwriting a key changes it by the difference of the value    *)
(* sizes).                                                                 *)
C22_SizeIsSum == memtable_size = MemtableBytes

(* a put has overwritten a key without merging and memtable_size exceeds   *)
(* the bytes of the memtable by the size of a key                          *)
C22_Drift ==
  /\ last.op = "put" /\ ~last.merged /\ abort = "none"
  /\ Cardinality(DOMAIN memtable) = 1
  /\ memtable_size = MemtableBytes + KeyWidth

(* C23: a pool created for N >= 0 blocks never holds more than N blocks,   *)
(* and a get or a write that inserts a block does not abort in add.        *)
C23_Capacity ==
  /\ Len(blocks) <= num_blocks
  /\ last.op \in {"get", "write"} => abort # "pop_back"

(* on a pool of no blocks the first insertion pops the empty deque *)
C23_EmptyPoolAborts ==
  /\ num_blocks = 0
  /\ last.op = "write"
  /\ last.pre_blocks = <<>> /\ blocks = <<>>
  /\ abort = "pop_back"

(* C24: merge called with an empty memtable, the run being empty or not,   *)
(* returns and leaves the run as it was (so a second merge in a row does   *)
(* nothing more than the first).                                           *)
C24_MergeEmpty ==
  (last.op = "merge" /\ last.pre_mem = EmptyMap) =>
    /\ abort = "none"
    /\ run = last.pre_run
    /\ DISK \in DOMAIN files

(* the second of two merges in a row, on a run of at least one page, has   *)
(* aborted taking the first entry of the empty memtable                    *)
C24_SecondMergeAborts ==
  /\ last.op = "merge" /\ last.pre_mem = EmptyMap
  /\ Len(last.pre_run) >= 1
  /\ merge_count >= 2
  /\ abort = "memtable_next"

(* the cell count in the header of the encoded page *)
HeaderCount(bytes) == DeU16(SubSeq(bytes, 1, 2)) % PAGE_TYPE_MASK

(* C25: after any add_cell calls, repeated keys included, num_cells is the *)
(* number of entries of cells, and the count in the encoded header is the  *)
(* number of offsets and cells written.                                    *)
C25_CountIsCells ==
  /\ spage.num_cells = Cardinality(DOMAIN spage.cells)
  /\ (spage.page_type = "Fixed" /\ Encode(spage).ok) =>
        HeaderCount(Encode(spage).bytes) = Len(CellOffsets(MapIter(spage.cells)))

(* add_cell has accepted a key the page already held: one entry, counted   *)
(* twice, and a header that announces two cells where one is written       *)
C25_RepeatedKey ==
  /\ last.op = "add_cell" /\ last.ok
  /\ spage.page_type = "Fixed"
  /\ last.k \in DOMAIN last.pre_page.cells
  /\ Cardinality(DOMAIN spage.cells) = 1 /\ spage.num_cells = 2
  /\ Encode(spage).ok
  /\ HeaderCount(Encode(spage).bytes) = 2
  /\ Len(CellOffsets(MapIter(spage.cells))) = 1

(* the page holds a tombstone *)
HasTombstone(p) == \E k \in DOMAIN p.cells : p.cells[k] = None

(* C26: a Fixed page built by add_cell with distinct keys that holds       *)
(* tombstones, at any position, encodes every cell in exactly the key      *)
(* width plus the value width declared in the header; decode stays inside  *)
(* the block and yields the cells of the page, tombstones as None.         *)
C26_Tombstones ==
  (spage.page_type = "Fixed" /\ DistinctAdds /\ HasTombstone(spage)) =>
    /\ Encode(spage).ok
    /\ \A i \in 1..Len(MapIter(spage.cells)) :
          Len(CellBytes(MapIter(spage.cells)[i])) = KeyWidth + (ValWidth + 1)
    /\ Decode(Encode(spage).bytes).ok
    /\ Decode(Encode(spage).bytes).page.cells = spage.cells

(* the smallest key of the page is a tombstone: its cell is one byte short *)
(* at the end of the block, and decode's value slice leaves the block      *)
C26_TombstoneFirst ==
  /\ spage.page_type = "Fixed" /\ DistinctAdds
  /\ Cardinality(DOMAIN spage.cells) = 2
  /\ spage.cells[MinKey(spage)] = None
  /\ Len(CellBytes(MapIter(spage.cells)[1])) = KeyWidth + ValWidth
  /\ Encode(spage).ok
  /\ ~Decode(Encode(spage).bytes).ok

====
